---- MODULE Spec2Model ----
(***************************************************************************)
(* A model of the export pipeline of spotify_exporter.py: the ExportWorker *)
(* thread (run, get_playlist_tracks, sanitize_filename, the serializers    *)
(* and export_to_discord) and the MainWindow handlers that start and       *)
(* cancel it.                                                              *)
(*                                                                         *)
(* A Python str is a sequence of characters, one TLA+ string per character *)
(* ("x0a" is the line feed, "u2500" the box-drawing rule, "u2022" the      *)
(* bullet).  A value that a loosely typed API record may hold is a record  *)
(* [k, v]: k = "absent" (key missing), "null" (None), "empty" (an empty    *)
(* dict), "val" (a value of the expected type, v) or "bad" (a value of     *)
(* another type: the number 5).                                            *)
(***************************************************************************)
EXTENDS Integers, Sequences, FiniteSets, TLC

\* ------------------------------------------------------------- bounds
\* The longest playlist selection of one run.
MaxSel == 3
\* How many seconds the wall clock may advance during a check.
MaxTicks == 1
\* The longest track list handed to a function of the worker called alone.
MaxTracks == 3
\* The longest of the short playlist names handed to sanitize_filename alone.
MaxLen == 3

\* ------------------------------------------------------------ strings
Digit(d) == <<"0", "1", "2", "3", "4", "5", "6", "7", "8", "9">>[d + 1]

RECURSIVE IntToStr(_)
\* str(n) / f"{n}" of a non-negative int
IntToStr(n) == IF n < 10 THEN <<Digit(n)>> ELSE IntToStr(n \div 10) \o <<Digit(n % 10)>>

\* "%02d": at least two digits
Pad2(n) == IF n < 10 THEN <<"0">> \o IntToStr(n) ELSE IntToStr(n)

RECURSIVE Join(_, _)
\* sep.join(parts)
Join(parts, sep) ==
    IF parts = <<>> THEN <<>>
    ELSE IF Len(parts) = 1 THEN Head(parts)
    ELSE Head(parts) \o sep \o Join(Tail(parts), sep)

RECURSIVE Flatten(_)
Flatten(ss) == IF ss = <<>> THEN <<>> ELSE Head(ss) \o Flatten(Tail(ss))

\* ------------------------------------------------ loosely typed values
Absent == [k |-> "absent", v |-> <<>>]
Null == [k |-> "null", v |-> <<>>]
Bad == [k |-> "bad", v |-> <<>>]
Val(s) == [k |-> "val", v |-> s]
AbsentInt == [k |-> "absent", v |-> 0]
NullInt == [k |-> "null", v |-> 0]
IntVal(n) == [k |-> "val", v |-> n]
\* a nested dict with one key of interest (album.name, external_urls.spotify)
Dict(kind, field) == [k |-> kind, v |-> field]

\* Python truthiness of a str or list valued field
Truthy(o) == \/ o.k = "bad"
             \/ o.k = "val" /\ o.v # <<>>

\* dict.get(key, default): the default only when the key is missing
Get(o, default) == IF o.k = "absent" THEN Val(default) ELSE o

\* --------------------------------------------------------- data classes
\* class Track
Track(name, artist, album, duration_ms, url) ==
    [name |-> name, artist |-> artist, album |-> album,
     duration_ms |-> duration_ms, url |-> url]

\* Track.to_dict
to_dict(t) ==
    [name |-> t.name, artist |-> t.artist, album |-> t.album,
     duration_ms |-> t.duration_ms, url |-> t.url]

\* class Playlist
Playlist(id, name, track_count, owner, description) ==
    [id |-> id, name |-> name, track_count |-> track_count, owner |-> owner,
     description |-> description]

\* ExportFormat values
ExportFormat == {"discord", "csv", "json", "txt", "md"}

UnknownTrack == <<"U", "n", "k", "n", "o", "w", "n", " ", "T", "r", "a", "c", "k">>
UnknownArtist == <<"U", "n", "k", "n", "o", "w", "n", " ", "A", "r", "t", "i", "s", "t">>
UnknownAlbum == <<"U", "n", "k", "n", "o", "w", "n", " ", "A", "l", "b", "u", "m">>
CommaSpace == <<",", " ">>
\* (mutant) the canonical url is built under /album/
TrackUrlPrefix_album == <<"h", "t", "t", "p", "s", ":", "/", "/", "o", "p", "e", "n", ".", "s", "p", "o", "t", "i", "f", "y", ".", "c", "o", "m", "/", "a", "l", "b", "u", "m", "/">>

TrackUrlPrefix == <<"h", "t", "t", "p", "s", ":", "/", "/", "o", "p", "e", "n", ".", "s", "p", "o", "t", "i", "f", "y", ".", "c", "o", "m", "/", "t", "r", "a", "c", "k", "/">>
RootUrl == <<"h", "t", "t", "p", "s", ":", "/", "/", "o", "p", "e", "n", ".", "s", "p", "o", "t", "i", "f", "y", ".", "c", "o", "m">>

\* ------------------------------------------------------ track normalizer
\* (mutant) artist['name'] without a default
ArtistNames_raw(artists) == [n \in 1..Len(artists) |-> artists[n]]

\* [artist.get('name', 'Unknown Artist') for artist in artists]
ArtistNames(artists) == [n \in 1..Len(artists) |-> Get(artists[n], UnknownArtist)]

\* the body of the try block of get_playlist_tracks for one raw track:
\* [ok |-> FALSE] when a statement raises (the record is skipped).
Skip == [ok |-> FALSE, track |-> Track(Null, Null, Null, NullInt, Null)]

NormalizeTrack(track) ==
    LET track_name == Get(track.name, UnknownTrack)
        artists == Get(track.artists, <<>>)
        names == ArtistNames(artists.v)
        artistsRaise == \/ artists.k = "bad"
                        \/ /\ Truthy(artists)
                           /\ \E n \in 1..Len(names) : names[n].k # "val"
        artist_names == IF Truthy(artists)
                        THEN Val(Join([n \in 1..Len(names) |-> names[n].v], CommaSpace))
                        ELSE Val(UnknownArtist)
        album == track.album
        albumRaise == album.k = "bad"
        album_name == IF album.k = "val" THEN Get(album.v.name, UnknownAlbum)
                      ELSE Val(UnknownAlbum)
        duration_ms == IF track.duration_ms.k = "absent" THEN IntVal(0)
                       ELSE track.duration_ms
        external_urls == track.external_urls
        urlsRaise == external_urls.k = "bad"
        track_id == Get(track.id, <<>>)
        track_url == IF external_urls.k = "val" /\ external_urls.v.spotify.k # "absent"
                     THEN external_urls.v.spotify
                     ELSE IF Truthy(track_id)
                          THEN IF track_id.k = "val" THEN Val(TrackUrlPrefix \o track_id.v)
                               ELSE Val(TrackUrlPrefix \o IntToStr(5))
                          ELSE Val(RootUrl)
    IN IF artistsRaise \/ albumRaise \/ urlsRaise THEN Skip
       ELSE [ok |-> TRUE,
             track |-> Track(track_name, artist_names, album_name, duration_ms, track_url)]

\* --------------------------------------------------- filename sanitizer
\* re.sub(r'[<>:"/\\|?*]', '', filename)
ForbiddenChars == {"<", ">", ":", "\"", "/", "\\", "|", "?", "*"}

\* re.sub(r'[\x00-\x1f\x7f-\x9f]', '', filename): the control characters a
\* name of the model may hold
ControlChars == {"x00", "x09", "x0a", "x0d", "x1f", "x7f", "x80", "x9f"}

StripChars == {".", " "}

RECURSIVE LStrip(_, _)
LStrip(s, chars) ==
    IF s # <<>> /\ Head(s) \in chars THEN LStrip(Tail(s), chars) ELSE s

RECURSIVE RStrip(_, _)
RStrip(s, chars) ==
    IF s # <<>> /\ s[Len(s)] \in chars THEN RStrip(SubSeq(s, 1, Len(s) - 1), chars) ELSE s

\* (mutant) only the leading characters are stripped
Strip_leading(s, chars) == LStrip(s, chars)

\* str.strip(chars)
Strip(s, chars) == RStrip(LStrip(s, chars), chars)

\* filename[:200]
NameLimit == 200

FallbackName == <<"p", "l", "a", "y", "l", "i", "s", "t">>

NotForbidden(c) == c \notin ForbiddenChars

\* (mutant) the control characters are kept
NotControl_any(c) == TRUE

NotControl(c) == c \notin ControlChars

\* (mutant) spaces are turned into underscores as well
sanitize_filename_underscore(filename) ==
    LET f1 == SelectSeq(filename, NotForbidden)
        f2 == SelectSeq(f1, NotControl)
        f3 == Strip(f2, StripChars)
        f4 == [n \in DOMAIN f3 |-> IF f3[n] = " " THEN "_" ELSE f3[n]]
    IN IF f4 # <<>> THEN SubSeq(f4, 1, IF Len(f4) < NameLimit THEN Len(f4) ELSE NameLimit)
       ELSE FallbackName

sanitize_filename(filename) ==
    LET f1 == SelectSeq(filename, NotForbidden)
        f2 == SelectSeq(f1, NotControl)
        f3 == Strip(f2, StripChars)
    IN IF f3 # <<>> THEN SubSeq(f3, 1, IF Len(f3) < NameLimit THEN Len(f3) ELSE NameLimit)
       ELSE FallbackName

\* ------------------------------------------------------------ serializers
\* The wall clock is the number of seconds since midnight of BaseDate.
BaseDate == <<"2", "0", "2", "5", "0", "1", "0", "1">>

\* datetime.now().strftime("%Y%m%d_%H%M%S")
strftime(t) ==
    BaseDate \o <<"_">> \o Pad2((t \div 3600) % 24) \o Pad2((t \div 60) % 60) \o Pad2(t % 60)

Extension(fmt) == <<".">> \o (CASE fmt = "csv" -> <<"c", "s", "v">>
                                [] fmt = "json" -> <<"j", "s", "o", "n">>
                                [] fmt = "txt" -> <<"t", "x", "t">>
                                [] fmt = "md" -> <<"m", "d">>)

\* self.output_dir / f"{safe_name}_{timestamp}.<ext>"
FilePath(output_dir, playlist, fmt, t) ==
    output_dir \o <<"/">> \o sanitize_filename(playlist.name) \o <<"_">> \o strftime(t)
        \o Extension(fmt)

\* (mutant) the count written is the one the playlist listing reports
ExportFile_reported(output_dir, playlist, tracks, fmt, t) ==
    [path |-> FilePath(output_dir, playlist, fmt, t),
     fmt |-> fmt,
     playlist |-> playlist.id,
     track_count |-> IF fmt = "csv" THEN -1 ELSE playlist.track_count,
     rows |-> [n \in 1..Len(tracks) |-> to_dict(tracks[n])]]

\* What export_to_csv / _json / _txt / _markdown write: the file at the path,
\* its rows in the order of tracks, and the track count it states (the csv
\* states none).
ExportFile(output_dir, playlist, tracks, fmt, t) ==
    [path |-> FilePath(output_dir, playlist, fmt, t),
     fmt |-> fmt,
     playlist |-> playlist.id,
     track_count |-> IF fmt = "csv" THEN -1 ELSE Len(tracks),
     rows |-> [n \in 1..Len(tracks) |-> to_dict(tracks[n])]]

\* open(filename, 'w'): the file of that path is replaced
WriteFile(files, f) == {g \in files : g.path # f.path} \cup {f}

\* ------------------------------------------------------------- json.dump
\* The values json.dump is given: a str, an int, None, a list, and a dict as
\* the sequence of its (key, value) pairs in insertion order.
JStr(chars) == [t |-> "str", v |-> chars]
JNum(n) == [t |-> "num", v |-> n]
JNull == [t |-> "null", v |-> 0]
JArr(values) == [t |-> "arr", v |-> values]
JObj(pairs) == [t |-> "obj", v |-> pairs]
Pair(key, value) == [key |-> key, value |-> value]

\* a str field that may hold None or, against its annotation, the number 5
PyStr(o) == IF o.k = "val" THEN JStr(o.v) ELSE IF o.k = "null" THEN JNull ELSE JNum(5)
\* an int field that may hold None
PyInt(o) == IF o.k = "val" THEN JNum(o.v) ELSE JNull

\* the two-digit escapes and the \u00XX escapes of the control characters
ShortEscapes ==
    [c \in {"\"", "\\", "x0a", "x0d", "x09"} |->
        CASE c = "\"" -> <<"\\", "\"">>
          [] c = "\\" -> <<"\\", "\\">>
          [] c = "x0a" -> <<"\\", "n">>
          [] c = "x0d" -> <<"\\", "r">>
          [] c = "x09" -> <<"\\", "t">>]
HexEscapes ==
    [c \in {"x00", "x1f"} |->
        IF c = "x00" THEN <<"\\", "u", "0", "0", "0", "0">>
        ELSE <<"\\", "u", "0", "0", "1", "f">>]

\* (mutant) the line feed is written with the escape of the tab
EscapeChar_tab(c) ==
    IF c = "x0a" THEN <<"\\", "t">>
    ELSE IF c \in DOMAIN ShortEscapes THEN ShortEscapes[c]
    ELSE IF c \in DOMAIN HexEscapes THEN HexEscapes[c]
    ELSE <<c>>

\* one character of a str as json.dump(ensure_ascii=False) writes it: only
\* the quote, the backslash and the characters below U+0020 are escaped
EscapeChar(c) ==
    IF c \in DOMAIN ShortEscapes THEN ShortEscapes[c]
    ELSE IF c \in DOMAIN HexEscapes THEN HexEscapes[c]
    ELSE <<c>>

EncodeString(chars) ==
    <<"\"">> \o Flatten([n \in DOMAIN chars |-> EscapeChar(chars[n])]) \o <<"\"">>

\* the line break and the indentation of a nesting level (indent=2)
Indent(level) == <<"x0a">> \o [n \in 1..(2 * level) |-> " "]

RECURSIVE Dumps(_, _)
\* json.dump(value, file, indent=2, ensure_ascii=False)
Dumps(value, level) ==
    CASE value.t = "str" -> EncodeString(value.v)
      [] value.t = "num" -> IntToStr(value.v)
      [] value.t = "null" -> <<"n", "u", "l", "l">>
      [] value.t = "arr" ->
            IF value.v = <<>> THEN <<"[", "]">>
            ELSE <<"[">>
                 \o Join([n \in DOMAIN value.v |->
                             Indent(level + 1) \o Dumps(value.v[n], level + 1)], <<",">>)
                 \o Indent(level) \o <<"]">>
      [] value.t = "obj" ->
            IF value.v = <<>> THEN <<"{", "}">>
            ELSE <<"{">>
                 \o Join([n \in DOMAIN value.v |->
                             Indent(level + 1) \o EncodeString(value.v[n].key) \o <<":", " ">>
                             \o Dumps(value.v[n].value, level + 1)], <<",">>)
                 \o Indent(level) \o <<"}">>

\* track.to_dict() as json.dump sees it
TrackObject(track) ==
    LET d == to_dict(track)
    IN JObj(<< Pair(<<"n", "a", "m", "e">>, PyStr(d.name)),
               Pair(<<"a", "r", "t", "i", "s", "t">>, PyStr(d.artist)),
               Pair(<<"a", "l", "b", "u", "m">>, PyStr(d.album)),
               Pair(<<"d", "u", "r", "a", "t", "i", "o", "n", "_", "m", "s">>,
                    PyInt(d.duration_ms)),
               Pair(<<"u", "r", "l">>, PyStr(d.url)) >>)

\* datetime.now().isoformat(), the microseconds left out
isoformat(t) ==
    <<"2", "0", "2", "5", "-", "0", "1", "-", "0", "1", "T">>
    \o Pad2((t \div 3600) % 24) \o <<":">> \o Pad2((t \div 60) % 60) \o <<":">> \o Pad2(t % 60)

\* the data dict of export_to_json
JsonData(playlist, tracks, t) ==
    JObj(<< Pair(<<"p", "l", "a", "y", "l", "i", "s", "t">>,
                 JObj(<< Pair(<<"n", "a", "m", "e">>, JStr(playlist.name)),
                         Pair(<<"o", "w", "n", "e", "r">>, JStr(playlist.owner)),
                         Pair(<<"d", "e", "s", "c", "r", "i", "p", "t", "i", "o", "n">>,
                              JStr(playlist.description)),
                         Pair(<<"t", "r", "a", "c", "k", "_", "c", "o", "u", "n", "t">>,
                              JNum(Len(tracks))) >>)),
            Pair(<<"t", "r", "a", "c", "k", "s">>,
                 JArr([n \in DOMAIN tracks |-> TrackObject(tracks[n])])),
            Pair(<<"e", "x", "p", "o", "r", "t", "e", "d", "_", "a", "t">>,
                 JStr(isoformat(t))) >>)

\* the text export_to_json writes to its file
JsonText(playlist, tracks, t) == Dumps(JsonData(playlist, tracks, t), 0)

\* ----------------------------------------------------------- webhook relay
\* len(current_message) + len(track_line) > 1800
Budget == 1800

\* f"{value}" of a field that may hold None or a number
Fmt(o) == IF o.k = "val" THEN o.v
          ELSE IF o.k = "null" THEN <<"N", "o", "n", "e">>
          ELSE IntToStr(5)

Rule == [n \in 1..40 |-> "u2500"]

Header(playlist, tracks) ==
    Rule \o <<"x0a", "x0a">>
    \o <<"#", "#">> \o playlist.name \o <<"x0a">>
    \o <<"*", "B", "y", " ">> \o playlist.owner \o <<" ", "u2022", " ">>
    \o IntToStr(Len(tracks)) \o <<" ", "t", "r", "a", "c", "k", "s", "*", "x0a">>
    \o Rule \o <<"x0a", "x0a">>

\* f"{i}. **{track.name}** - {track.artist}\n"
TrackLine(i, track) ==
    IntToStr(i) \o <<".", " ", "*", "*">> \o Fmt(track.name) \o <<"*", "*", " ", "-", " ">>
    \o Fmt(track.artist) \o <<"x0a">>

RECURSIVE Chunk_drops(_, _, _, _)
\* (mutant) the line that does not fit is lost when the buffer is flushed
Chunk_drops(tracks, i, messages, current_message) ==
    IF i > Len(tracks)
    THEN IF current_message # <<>> THEN Append(messages, current_message) ELSE messages
    ELSE LET track_line == TrackLine(i, tracks[i])
         IN IF Len(current_message) + Len(track_line) > Budget
            THEN Chunk_drops(tracks, i + 1, Append(messages, current_message), <<>>)
            ELSE Chunk_drops(tracks, i + 1, messages, current_message \o track_line)

RECURSIVE Chunk(_, _, _, _)
\* the for loop of export_to_discord from track i on, and the final flush
Chunk(tracks, i, messages, current_message) ==
    IF i > Len(tracks)
    THEN IF current_message # <<>> THEN Append(messages, current_message) ELSE messages
    ELSE LET track_line == TrackLine(i, tracks[i])
         IN IF Len(current_message) + Len(track_line) > Budget
            THEN Chunk(tracks, i + 1, Append(messages, current_message), track_line)
            ELSE Chunk(tracks, i + 1, messages, current_message \o track_line)

\* the messages export_to_discord posts, in order
DiscordMessages(playlist, tracks) == Chunk(tracks, 1, <<Header(playlist, tracks)>>, <<>>)

WebhookRequired == <<"D", "i", "s", "c", "o", "r", "d", " ", "w", "e", "b", "h", "o", "o", "k", " ", "U", "R", "L", " ", "i", "s", " ", "r", "e", "q", "u", "i", "r", "e", "d">>
FailedToSend == <<"F", "a", "i", "l", "e", "d", " ", "t", "o", " ", "s", "e", "n", "d", " ", "t", "o", " ", "D", "i", "s", "c", "o", "r", "d", ":", " ">>

\* response.status_code not in (200, 204)
StatusOk(status) == status \in {200, 204}

\* ------------------------------------------------- the remote data source
RawTrack(name, artists, album, duration_ms, external_urls, id) ==
    [name |-> name, artists |-> artists, album |-> album, duration_ms |-> duration_ms,
     external_urls |-> external_urls, id |-> id]

NoAlbum == Dict("absent", [name |-> Absent])
NoUrls == Dict("absent", [spotify |-> Absent])
NoRawTrack == RawTrack(Absent, Absent, NoAlbum, AbsentInt, NoUrls, Absent)

\* one entry of results['items']
Item(kind, track) == [track |-> [k |-> kind, v |-> track]]

\* a complete record
TrackA == RawTrack(Val(<<"A">>), Val(<<Val(<<"X">>)>>), Dict("val", [name |-> Val(<<"L">>)]),
                   IntVal(1), Dict("val", [spotify |-> Val(<<"u", "a">>)]), Val(<<"a">>))
\* two artists, no external url
TrackB == RawTrack(Val(<<"B">>), Val(<<Val(<<"X">>), Val(<<"Y">>)>>),
                   Dict("val", [name |-> Val(<<"L">>)]), IntVal(2), NoUrls, Val(<<"b">>))
\* only a name
TrackC == RawTrack(Val(<<"C">>), Absent, NoAlbum, AbsentInt, NoUrls, Absent)
\* name and duration_ms present and null
TrackNull == RawTrack(Null, Val(<<Val(<<"X">>)>>), Dict("val", [name |-> Val(<<"L">>)]),
                      NullInt, NoUrls, Val(<<"n">>))
\* a malformed album
TrackBad == RawTrack(Val(<<"D">>), Absent, Dict("bad", [name |-> Absent]), IntVal(4),
                     NoUrls, Val(<<"d">>))

Owner == <<"m", "e">>

\* MainWindow.playlists: the listing loaded from the service
Catalogue ==
    << Playlist("p1", <<"R", "o", "a", "d", " ", "T", "r", "i", "p">>, 3, Owner, <<>>),
       Playlist("p2", <<"C", "h", "i", "l", "l">>, 0, Owner, <<>>),
       Playlist("p3", <<"R", "o", "a", "d", " ", "T", "r", "i", "p", ".">>, 3, Owner, <<>>),
       Playlist("p4", <<"R", "o", "a", "d", " ", "T", "r", "i", "p">>, 1, Owner, <<>>) >>

\* sp.playlist_tracks(playlist_id) and sp.next(results): the chain of pages of
\* each playlist; results['next'] is set on every page but the last
Remote(playlist_id) ==
    CASE playlist_id = "p1" ->
            << <<Item("val", TrackA), Item("val", TrackB)>>, <<Item("val", TrackC)>> >>
      [] playlist_id = "p2" -> << <<>> >>
      [] playlist_id = "p3" ->
            << <<Item("null", NoRawTrack), Item("val", TrackNull)>>, <<>>,
               <<Item("val", TrackBad)>> >>
      [] playlist_id = "p4" -> << <<Item("val", TrackA)>> >>

\* the message of the exception a failed page request raises
FetchError == <<"h", "t", "t", "p", " ", "e", "r", "r", "o", "r">>
\* the message of the OSError a failed open() raises
WriteError == <<"o", "s", " ", "e", "r", "r", "o", "r">>
\* the status codes the webhook endpoint answers with
Statuses == {200, 204, 429}
\* the export locations a user may enter: a directory, nothing, a path that
\* does not exist, and the path of a regular file
OutputDir == <<"o", "u", "t">>
MissingDir == <<"n", "o">>
AFile == <<"f">>
\* Path(export_location).exists()
Exists(location) == location \in {OutputDir, AFile}
\* open() of a file under the location can succeed
IsDir(location) == location = OutputDir
WebhookUrl == <<"h", "o", "o", "k">>

\* ------------------------------------------------------------------ state
Workers == {1, 2}

VARIABLES
    worker,     \* the ExportWorker objects: fields, the position of run(), and
                \* what each did: its page requests, webhook posts and file writes
    inbox,      \* the signals emitted and not yet handled by a slot, in order
    disk,       \* the files of the output directory
    now,        \* the wall clock
    ticks,      \* how far the clock advanced
    gui,        \* the MainWindow: its worker reference and its widgets
    call        \* one call of a function of the worker on its own: the
                \* arguments and, once it returned, the result

vars == <<worker, inbox, disk, now, ticks, gui, call>>

\* no function is called on its own
NoCall == [op |-> "none"]

\* the selections the list widget can hold: distinct rows of the listing
Selections ==
    {sel \in UNION {[1..n -> 1..Len(Catalogue)] : n \in 1..MaxSel} :
        \A a, b \in DOMAIN sel : a # b => sel[a] # sel[b]}

\* an ExportWorker that was never constructed
NoWorker ==
    [pc |-> "none", export_format |-> "csv", playlists |-> <<>>, output_dir |-> <<>>,
     webhook_url |-> <<>>, is_cancelled |-> FALSE, exported_files |-> <<>>,
     i |-> 1, tracks |-> <<>>, page |-> 0, item |-> 1, messages |-> <<>>,
     fetched |-> <<>>, files_at_cancel |-> -1, outcome |-> "none",
     requests |-> <<>>, posts |-> <<>>, written |-> <<>>, raised |-> <<>>,
     emitted |-> <<>>]

\* ExportWorker.__init__, followed by start()
NewWorker(export_format, playlists, output_dir, webhook_url) ==
    [NoWorker EXCEPT !.pc = "run", !.export_format = export_format,
                     !.playlists = playlists, !.output_dir = output_dir,
                     !.webhook_url = webhook_url]

Signal(w, sig, value, text, files) ==
    [w |-> w, sig |-> sig, value |-> value, text |-> text, files |-> files]

ExportingLabel == <<"E", "x", "p", "o", "r", "t", "i", "n", "g", ":", " ">>
CompletedLabel == <<"E", "x", "p", "o", "r", "t", " ", "c", "o", "m", "p", "l", "e", "t", "e", "d">>

\* (mutant) the percentage counts the playlist that is only starting
Percent_started(i, total) == ((i + 1) * 100) \div total

\* int((i / total) * 100) for the 0-based index i
Percent(i, total) == (i * 100) \div total

\* except Exception as e: self.error.emit(str(e))
\* signal.emit(...): the signals are queued for the slots of the interface
\* thread; emitted keeps all that a worker ever emitted
Emit(w, me, signals) ==
    /\ worker' = [worker EXCEPT ![w] = [me EXCEPT !.emitted = @ \o signals]]
    /\ inbox' = inbox \o signals

\* (mutant) the statements after the loop run after the handler as well
Raise_then_completes(w, me, message) ==
    Emit(w, [me EXCEPT !.pc = "done", !.outcome = "failed",
                       !.raised = Append(@, [playlist |-> me.i, message |-> message])],
         << Signal(w, "error", 0, message, <<>>),
            Signal(w, "progress", 100, CompletedLabel, <<>>),
            Signal(w, "finished", 0, <<>>, me.exported_files) >>)

Raise(w, me, message) ==
    Emit(w, [me EXCEPT !.pc = "done", !.outcome = "failed",
                       !.raised = Append(@, [playlist |-> me.i, message |-> message])],
         <<Signal(w, "error", 0, message, <<>>)>>)

\* -------------------------------------------------------- ExportWorker.run
\* The playlist the loop of run() is at, and the page the walker holds.
CurrentPlaylist(w) == worker[w].playlists[worker[w].i]
CurrentItems(w) == Remote(CurrentPlaylist(w).id)[worker[w].page]
\* (mutant) the cursor to the next page is never followed
HasNext_never(w) == FALSE

\* results['next']
HasNext(w) == worker[w].page < Len(Remote(CurrentPlaylist(w).id))

\* (mutant) a cancelled run hands its files to the completion signal
Cancelled_emits(w) ==
    Emit(w, [worker[w] EXCEPT !.pc = "done", !.outcome = "cancelled"],
         <<Signal(w, "finished", 0, <<>>, worker[w].exported_files)>>)

\* `if self._is_cancelled: return` at the head of the loop of run()
Cancelled(w) ==
    /\ worker' = [worker EXCEPT ![w].pc = "done", ![w].outcome = "cancelled"]
    /\ inbox' = inbox

\* The head of the for loop of run(): the end of the loop emits 100% and the
\* completion signal; a set flag returns without a signal; otherwise the
\* progress of the playlist is emitted and its first page is requested next.
Run(w) ==
    /\ worker[w].pc = "run"
    /\ LET me == worker[w]
           total == Len(me.playlists)
       IN IF me.i > total
          THEN Emit(w, [me EXCEPT !.pc = "done", !.outcome = "completed"],
                    << Signal(w, "progress", 100, CompletedLabel, <<>>),
                       Signal(w, "finished", 0, <<>>, me.exported_files) >>)
          ELSE IF me.is_cancelled
          THEN Cancelled(w)
          ELSE Emit(w, [me EXCEPT !.pc = "fetch", !.tracks = <<>>, !.page = 0, !.item = 1],
                    << Signal(w, "progress", Percent(me.i - 1, total),
                              ExportingLabel \o me.playlists[me.i].name, <<>>) >>)
    /\ UNCHANGED <<disk, now, ticks, gui, call>>

\* (mutant) the handlers of the definition of get_playlist_tracks at line 576,
\* which the one at line 774 replaces: the error is logged and the tracks
\* fetched so far are returned
FetchFailed_handled(w, me) ==
    /\ worker' = [worker EXCEPT ![w] = [me EXCEPT !.pc = "export",
                      !.fetched = Append(@, [playlist |-> me.i, tracks |-> me.tracks])]]
    /\ inbox' = inbox

\* A page request that raised, in get_playlist_tracks as the class defines it
\* last (line 774): no handler, the exception reaches run().
FetchFailed(w, me) == Raise(w, me, FetchError)

\* self.sp.playlist_tracks(playlist_id) for the first page, self.sp.next(results)
\* for a later one: a blocking call that returns the page or raises.
Fetch(w) ==
    /\ worker[w].pc = "fetch"
    /\ \E ok \in BOOLEAN :
          LET me == [worker[w] EXCEPT !.requests = Append(@,
                        [playlist |-> worker[w].i, page |-> worker[w].page + 1, ok |-> ok])]
          IN IF ok
             THEN /\ worker' = [worker EXCEPT ![w] = [me EXCEPT !.pc = "items",
                                                         !.page = @ + 1, !.item = 1]]
                  /\ inbox' = inbox
             ELSE FetchFailed(w, me)
    /\ UNCHANGED <<disk, now, ticks, gui, call>>

\* (mutant) the walker never returns
ReturnTracks_never(w) == worker

\* get_playlist_tracks returns tracks to run()
ReturnTracks(w) ==
    [worker EXCEPT ![w].pc = "export",
                   ![w].fetched = Append(@, [playlist |-> worker[w].i,
                                             tracks |-> worker[w].tracks])]

\* (mutant) the track is put in front of the list
AppendTrack_front(tracks, track) == <<track>> \o tracks

\* tracks.append(Track(...))
AppendTrack(tracks, track) == Append(tracks, track)

\* (mutant) a record that cannot be normalized raises into run()
WalkItem_raises(w) ==
    /\ worker[w].pc = "items"
    /\ worker[w].item <= Len(CurrentItems(w))
    /\ LET me == worker[w]
           track == CurrentItems(w)[me.item].track
           norm == IF track.k = "val" THEN NormalizeTrack(track.v) ELSE Skip
       IN IF me.is_cancelled
          THEN worker' = ReturnTracks(w) /\ inbox' = inbox
          ELSE IF ~norm.ok
          THEN Raise(w, me, <<"K", "e", "y", "E", "r", "r", "o", "r">>)
          ELSE /\ worker' = [worker EXCEPT ![w].item = @ + 1,
                                           ![w].tracks = AppendTrack(@, norm.track)]
               /\ inbox' = inbox
    /\ UNCHANGED <<disk, now, ticks, gui, call>>

\* One turn of `for item in results['items']`: the flag is read first; an item
\* without track data and a record whose normalization raises are skipped.
WalkItem(w) ==
    /\ worker[w].pc = "items"
    /\ worker[w].item <= Len(CurrentItems(w))
    /\ LET me == worker[w]
           track == CurrentItems(w)[me.item].track
           norm == IF track.k = "val" THEN NormalizeTrack(track.v) ELSE Skip
       IN IF me.is_cancelled
          THEN worker' = ReturnTracks(w)
          ELSE IF track.k \in {"absent", "null", "empty"} \/ ~norm.ok
          THEN worker' = [worker EXCEPT ![w].item = @ + 1]
          ELSE worker' = [worker EXCEPT ![w].item = @ + 1,
                                        ![w].tracks = AppendTrack(@, norm.track)]
    /\ UNCHANGED <<inbox, disk, now, ticks, gui, call>>

\* After the last item of a page: `if results['next']` asks for the next page,
\* else the loop breaks and the tracks are returned.
PageEnd(w) ==
    /\ worker[w].pc = "items"
    /\ worker[w].item > Len(CurrentItems(w))
    /\ IF HasNext(w)
       THEN worker' = [worker EXCEPT ![w].pc = "fetch"]
       ELSE worker' = ReturnTracks(w)
    /\ UNCHANGED <<inbox, disk, now, ticks, gui, call>>

\* (mutant) the check for an empty track list is missing
NothingToExport_never(tracks) == FALSE

\* `if not tracks: continue`
NothingToExport(tracks) == tracks = <<>>

\* The rest of the loop body of run() once the tracks are back: an empty list
\* continues with the next playlist; the relay builds its messages (or raises
\* without a webhook url); a serializer writes its file, whose path is appended
\* to exported_files.
Export(w) ==
    /\ worker[w].pc = "export"
    /\ LET me == worker[w]
           playlist == CurrentPlaylist(w)
       IN IF NothingToExport(me.tracks)
          THEN /\ worker' = [worker EXCEPT ![w].pc = "run", ![w].i = @ + 1]
               /\ UNCHANGED <<inbox, disk>>
          ELSE IF me.export_format = "discord"
          THEN /\ IF me.webhook_url = <<>>
                  THEN Raise(w, me, WebhookRequired)
                  ELSE /\ worker' = [worker EXCEPT ![w].pc = "post",
                                 ![w].messages = DiscordMessages(playlist, me.tracks)]
                       /\ inbox' = inbox
               /\ UNCHANGED disk
          ELSE \E ok \in (IF IsDir(me.output_dir) THEN BOOLEAN ELSE {FALSE}) :
                  IF ok
                  THEN LET f == ExportFile(me.output_dir, playlist, me.tracks,
                                           me.export_format, now)
                       IN /\ disk' = WriteFile(disk, f)
                          /\ worker' = [worker EXCEPT ![w].pc = "run", ![w].i = @ + 1,
                                 ![w].exported_files = Append(@, f.path),
                                 ![w].written = Append(@, [playlist |-> me.i,
                                                           path |-> f.path, at |-> now])]
                          /\ inbox' = inbox
                  ELSE /\ Raise(w, me, WriteError)
                       /\ UNCHANGED disk
    /\ UNCHANGED <<now, ticks, gui, call>>

\* (mutant) the failure is signalled and the run goes on with the next playlist
PostFailed_goes_on(w, sent, status) ==
    Emit(w, [sent EXCEPT !.pc = "run", !.i = @ + 1, !.messages = <<>>],
         <<Signal(w, "error", 0, FailedToSend \o IntToStr(status), <<>>)>>)

\* raise Exception(f"Failed to send to Discord: {response.status_code}")
PostFailed(w, sent, status) == Raise(w, sent, FailedToSend \o IntToStr(status))

\* (mutant) the flag is not read before a post
Post_ignores_flag(w) ==
    /\ worker[w].pc = "post"
    /\ LET me == worker[w]
       IN IF me.messages = <<>>
          THEN /\ worker' = [worker EXCEPT ![w].pc = "run", ![w].i = @ + 1]
               /\ inbox' = inbox
          ELSE LET sent == [me EXCEPT !.posts = Append(@,
                                  [playlist |-> me.i, content |-> Head(me.messages),
                                   status |-> 200, flag |-> me.is_cancelled])]
               IN /\ worker' = [worker EXCEPT ![w] = [sent EXCEPT !.messages = Tail(@)]]
                  /\ inbox' = inbox
    /\ UNCHANGED <<disk, now, ticks, gui, call>>

\* One turn of `for msg in messages` of export_to_discord: a set flag returns
\* to run(); a status other than 200 and 204 raises; the end of the list
\* returns to run().
Post(w) ==
    /\ worker[w].pc = "post"
    /\ LET me == worker[w]
       IN IF me.messages = <<>> \/ me.is_cancelled
          THEN /\ worker' = [worker EXCEPT ![w].pc = "run", ![w].i = @ + 1,
                                           ![w].messages = <<>>]
               /\ inbox' = inbox
          ELSE \E status \in Statuses :
                  LET sent == [me EXCEPT !.posts = Append(@,
                                  [playlist |-> me.i, content |-> Head(me.messages),
                                   status |-> status, flag |-> me.is_cancelled])]
                  IN IF StatusOk(status)
                     THEN /\ worker' = [worker EXCEPT
                                           ![w] = [sent EXCEPT !.messages = Tail(@)]]
                          /\ inbox' = inbox
                     ELSE PostFailed(w, sent, status)
    /\ UNCHANGED <<disk, now, ticks, gui, call>>

\* ExportWorker.cancel, called from the interface thread while the worker runs
Cancel(w) ==
    /\ worker[w].pc \notin {"none", "done"}
    /\ ~worker[w].is_cancelled
    /\ worker' = [worker EXCEPT ![w].is_cancelled = TRUE,
                                ![w].files_at_cancel = Len(worker[w].exported_files)]
    /\ UNCHANGED <<inbox, disk, now, ticks, gui, call>>

\* a second of wall-clock time passes
Tick ==
    /\ ticks < MaxTicks
    /\ now' = now + 1
    /\ ticks' = ticks + 1
    /\ UNCHANGED <<worker, inbox, disk, gui, call>>

\* ------------------------------------------------------------ MainWindow
\* MainWindow.__init__: no worker, the progress widgets hidden, the export
\* buttons enabled.  The message boxes and the status bar texts are left out:
\* no handler reads them.
NoGui ==
    [worker |-> 0, progress_visible |-> FALSE, buttons_enabled |-> TRUE,
     progress_value |-> 0]

\* show_progress(show)
show_progress(g, show) ==
    IF show THEN [g EXCEPT !.progress_visible = TRUE]
    ELSE [g EXCEPT !.progress_visible = FALSE, !.progress_value = 0]

\* disable_export_buttons / enable_export_buttons
disable_export_buttons(g) == [g EXCEPT !.buttons_enabled = FALSE]
enable_export_buttons(g) == [g EXCEPT !.buttons_enabled = TRUE]

\* QThread.isRunning
isRunning(w) == worker[w].pc \notin {"none", "done"}

\* the selections, export locations and webhook texts entered in the interface
GuiSelections == {<<>>, <<2>>, <<4>>}
GuiLocations == {OutputDir, <<>>, MissingDir, AFile}
GuiWebhooks == {<<>>, <<" ">>, WebhookUrl}
\* the export buttons clicked: a serializer and the relay
GuiFormats == {"csv", "discord"}

\* MainWindow.start_export, called by the click of an enabled export button:
\* the selection, the location and (for the relay) the webhook url are
\* checked, the user confirms, and a worker is constructed and started.
start_export(export_format) ==
    /\ gui.buttons_enabled
    /\ \E sel \in GuiSelections :
          IF sel = <<>>
          THEN UNCHANGED <<worker, gui>>
          ELSE \E export_location \in GuiLocations :
             IF export_location = <<>> \/ ~Exists(export_location)
             THEN UNCHANGED <<worker, gui>>
             ELSE \E webhook_input \in (IF export_format = "discord" THEN GuiWebhooks
                                        ELSE {<<>>}) :
                LET webhook_url == IF export_format = "discord"
                                   THEN Strip(webhook_input, {" ", "x09", "x0a", "x0d"})
                                   ELSE <<>>
                    selected_playlists == [n \in DOMAIN sel |-> Catalogue[sel[n]]]
                IN IF export_format = "discord" /\ webhook_url = <<>>
                   THEN UNCHANGED <<worker, gui>>
                   ELSE \E yes \in BOOLEAN :
                      IF ~yes
                      THEN UNCHANGED <<worker, gui>>
                      ELSE \E w \in Workers :
                              /\ worker[w].pc = "none"
                              /\ \A v \in Workers : v < w => worker[v].pc # "none"
                              /\ worker' = [worker EXCEPT ![w] =
                                     NewWorker(export_format, selected_playlists,
                                               export_location, webhook_url)]
                              /\ gui' = [disable_export_buttons(show_progress(gui, TRUE))
                                            EXCEPT !.worker = w]
    /\ UNCHANGED <<inbox, disk, now, ticks, call>>

\* MainWindow.cancel_export, called by the click of the visible cancel button
cancel_export ==
    /\ gui.progress_visible
    /\ IF gui.worker # 0 /\ isRunning(gui.worker)
       THEN \E yes \in BOOLEAN :
               IF yes
               THEN /\ worker' = [worker EXCEPT
                          ![gui.worker].is_cancelled = TRUE,
                          ![gui.worker].files_at_cancel =
                              IF worker[gui.worker].is_cancelled THEN @
                              ELSE Len(worker[gui.worker].exported_files)]
                    /\ gui' = enable_export_buttons(show_progress(gui, FALSE))
               ELSE UNCHANGED <<worker, gui>>
       ELSE UNCHANGED <<worker, gui>>
    /\ UNCHANGED <<inbox, disk, now, ticks, call>>

\* MainWindow.update_progress, the slot of ExportWorker.progress
update_progress ==
    /\ inbox # <<>>
    /\ Head(inbox).sig = "progress"
    /\ gui' = [gui EXCEPT !.progress_value = Head(inbox).value]
    /\ inbox' = Tail(inbox)
    /\ UNCHANGED <<worker, disk, now, ticks, call>>

\* MainWindow.export_finished, the slot of ExportWorker.finished
export_finished ==
    /\ inbox # <<>>
    /\ Head(inbox).sig = "finished"
    /\ gui' = enable_export_buttons(show_progress(gui, FALSE))
    /\ inbox' = Tail(inbox)
    /\ UNCHANGED <<worker, disk, now, ticks, call>>

\* MainWindow.export_error, the slot of ExportWorker.error
export_error ==
    /\ inbox # <<>>
    /\ Head(inbox).sig = "error"
    /\ gui' = enable_export_buttons(show_progress(gui, FALSE))
    /\ inbox' = Tail(inbox)
    /\ UNCHANGED <<worker, disk, now, ticks, call>>

\* --------------------------------------------------- one export run
StartClock == 12 * 3600 + 34 * 60 + 59

\* A worker constructed for any format and selection and started; no webhook
\* url is passed for a file format.
Init ==
    /\ \E fmt \in ExportFormat, sel \in Selections :
       \E url \in (IF fmt = "discord" THEN {<<>>, WebhookUrl} ELSE {<<>>}) :
          worker = [w \in Workers |->
                       IF w = 1
                       THEN NewWorker(fmt, [n \in DOMAIN sel |-> Catalogue[sel[n]]],
                                      OutputDir, url)
                       ELSE NoWorker]
    /\ inbox = <<>>
    /\ disk = {}
    /\ now = StartClock
    /\ ticks = 0
    /\ gui = [NoGui EXCEPT !.worker = 1, !.progress_visible = TRUE,
                           !.buttons_enabled = FALSE]
    /\ call = NoCall

Next ==
    \/ \E w \in Workers : Run(w)
    \/ \E w \in Workers : Fetch(w)
    \/ \E w \in Workers : WalkItem(w)
    \/ \E w \in Workers : PageEnd(w)
    \/ \E w \in Workers : Export(w)
    \/ \E w \in Workers : Post(w)
    \/ \E w \in Workers : Cancel(w)
    \/ Tick

Spec == Init /\ [][Next]_vars

\* One step of the thread of a worker.
WorkerStep(w) ==
    Run(w) \/ Fetch(w) \/ WalkItem(w) \/ PageEnd(w) \/ Export(w) \/ Post(w)

\* The same run with a thread that is scheduled as long as it can take a step:
\* every blocking call (a page request, a post, a write) returns.
SpecLive == Init /\ [][Next]_vars /\ \A w \in Workers : WF_vars(WorkerStep(w))

\* ------------------------------------- the interface and its workers
InitGUI ==
    /\ worker = [w \in Workers |-> NoWorker]
    /\ inbox = <<>>
    /\ disk = {}
    /\ now = StartClock
    /\ ticks = 0
    /\ gui = NoGui
    /\ call = NoCall

NextGUI ==
    \/ \E export_format \in GuiFormats : start_export(export_format)
    \/ cancel_export
    \/ update_progress
    \/ export_finished
    \/ export_error
    \/ \E w \in Workers : Run(w)
    \/ \E w \in Workers : Fetch(w)
    \/ \E w \in Workers : WalkItem(w)
    \/ \E w \in Workers : PageEnd(w)
    \/ \E w \in Workers : Export(w)
    \/ \E w \in Workers : Post(w)

SpecGUI == InitGUI /\ [][NextGUI]_vars

\* ------------------------------------ the functions of the worker, alone
\* The raw track records handed to the normalizer: every key may be missing;
\* a name may be null, an artist entry may lack its name or hold a null one,
\* an album may be empty, lack its name or be malformed, external_urls may be
\* empty or lack the 'spotify' key, and the id may be the empty string.
RawNames == {Absent, Null, Val(<<"A">>)}
RawArtists ==
    {Absent, Val(<<>>), Val(<<Val(<<"X">>)>>), Val(<<Val(<<"X">>), Absent>>),
     Val(<<Absent>>), Val(<<Null>>)}
RawAlbums ==
    {NoAlbum, Dict("empty", [name |-> Absent]), Dict("val", [name |-> Val(<<"L">>)]),
     Dict("val", [name |-> Absent]), Dict("bad", [name |-> Absent])}
RawDurations == {AbsentInt, IntVal(7)}
RawUrls ==
    {NoUrls, Dict("val", [spotify |-> Val(<<"u">>)]), Dict("val", [spotify |-> Absent]),
     Dict("empty", [spotify |-> Absent])}
RawIds == {Absent, Val(<<"a">>), Val(<<>>)}

RawTracks ==
    {RawTrack(name, artists, album, duration_ms, external_urls, id) :
        name \in RawNames, artists \in RawArtists, album \in RawAlbums,
        duration_ms \in RawDurations, external_urls \in RawUrls, id \in RawIds}

\* a function called with an argument, not yet returned
Called(op, arg) == [op |-> op, arg |-> arg, returned |-> FALSE, result |-> <<>>]

\* the try block of get_playlist_tracks applied to one raw record
ApplyNormalizeTrack ==
    /\ call.op = "normalize"
    /\ ~call.returned
    /\ call' = [call EXCEPT !.returned = TRUE, !.result = NormalizeTrack(call.arg)]
    /\ UNCHANGED <<worker, inbox, disk, now, ticks, gui>>

\* The track lists handed to the relay: names of 1, 888 and 1789 characters
\* give lines of 13, 900 and 1801 characters (two lines of 900 fill the
\* budget exactly, one of 1801 is over it alone).
TrackNames == {<<"A">>, [n \in 1..888 |-> "a"], [n \in 1..1789 |-> "a"]}

TrackLists ==
    UNION {[1..n -> {Track(Val(name), Val(<<"X">>), Val(<<"L">>), IntVal(1), Val(<<"u">>)) :
                        name \in TrackNames}] : n \in 1..MaxTracks}

\* the playlists handed to the relay: a short name and one of 1800 characters
RelayPlaylists ==
    {Catalogue[2], Playlist("p5", [n \in 1..1800 |-> "b"], 1, Owner, <<>>)}

\* export_to_discord up to the post loop: the messages it builds
ApplyDiscordMessages ==
    /\ call.op = "discord"
    /\ ~call.returned
    /\ call' = [call EXCEPT !.returned = TRUE,
                            !.result = DiscordMessages(call.arg.playlist, call.arg.tracks)]
    /\ UNCHANGED <<worker, inbox, disk, now, ticks, gui>>

\* The names handed to sanitize_filename: every short string over a letter, the
\* stripped characters, two forbidden characters and a control character; and
\* names around the limit of 200 characters with such characters at their ends.
NameChars == {"a", ".", " ", "<", "*", "x0a"}

ShortNames == UNION {[1..n -> NameChars] : n \in 0..MaxLen}

LongNames ==
    {pre \o [n \in 1..len |-> "a"] \o post :
        pre \in {<<>>, <<".">>, <<"<">>},
        len \in (NameLimit - 1)..(NameLimit + 1),
        post \in {<<>>, <<" ", "b">>, <<"x0a", ".">>}}

\* sanitize_filename applied to one name
ApplySanitizeFilename ==
    /\ call.op = "sanitize"
    /\ ~call.returned
    /\ call' = [call EXCEPT !.returned = TRUE, !.result = sanitize_filename(call.arg)]
    /\ UNCHANGED <<worker, inbox, disk, now, ticks, gui>>

\* The tracks handed to export_to_json: plain fields; fields holding a quote,
\* a backslash, a line feed, a control character, a non-ASCII character, JSON
\* punctuation and the texts "null" and "5"; and a Track with None fields and
\* a number for its album.
JsonTracks ==
    { Track(Val(<<"A">>), Val(<<"X">>), Val(<<"L">>), IntVal(215000), Val(<<"u">>)),
      Track(Val(<<"\"", "\\", "x0a">>), Val(<<"n", "u", "l", "l">>), Val(<<"5">>),
            IntVal(0), Val(<<"x1f", "u2500">>)),
      Track(Val(<<"]", ",", "{", " ">>), Val(<<>>), Val(<<"\\", "n">>), IntVal(7),
            Val(RootUrl)),
      Track(Null, Val(UnknownArtist), Bad, NullInt, Null) }

JsonLists == UNION {[1..n -> JsonTracks] : n \in 0..MaxTracks}

\* export_to_json: the text of the file it writes
ApplyExportToJson ==
    /\ call.op = "json"
    /\ ~call.returned
    /\ call' = [call EXCEPT !.returned = TRUE,
                            !.result = JsonText(call.arg.playlist, call.arg.tracks, now)]
    /\ UNCHANGED <<worker, inbox, disk, now, ticks, gui>>

InitFunctions ==
    /\ worker = [w \in Workers |-> NoWorker]
    /\ inbox = <<>>
    /\ disk = {}
    /\ now = StartClock
    /\ ticks = 0
    /\ gui = NoGui
    /\ \/ \E track \in RawTracks : call = Called("normalize", track)
       \/ \E playlist \in RelayPlaylists, tracks \in TrackLists :
             call = Called("discord", [playlist |-> playlist, tracks |-> tracks])
       \/ \E filename \in ShortNames \cup LongNames : call = Called("sanitize", filename)
       \/ \E tracks \in JsonLists :
             call = Called("json", [playlist |-> Catalogue[1], tracks |-> tracks])

NextFunctions ==
    \/ ApplyNormalizeTrack
    \/ ApplyDiscordMessages
    \/ ApplySanitizeFilename
    \/ ApplyExportToJson

SpecFunctions == InitFunctions /\ [][NextFunctions]_vars

\* ===================================================================
\* Properties of one export run (Spec)
\* ===================================================================
IsPrefix(s, t) == Len(s) <= Len(t) /\ s = SubSeq(t, 1, Len(s))

RECURSIVE NormalizeAll(_)
\* the tracks of a sequence of items, each normalized, the skipped ones left out
NormalizeAll(items) ==
    IF items = <<>> THEN <<>>
    ELSE LET track == Head(items).track
             norm == IF track.k = "val" THEN NormalizeTrack(track.v) ELSE Skip
         IN (IF norm.ok THEN <<norm.track>> ELSE <<>>) \o NormalizeAll(Tail(items))

\* all the tracks of a playlist in the order of the source: page by page,
\* item by item
InFetchOrder(playlist) == NormalizeAll(Flatten(Remote(playlist.id)))

Increasing(s, key(_)) == \A a, b \in DOMAIN s : a < b => key(s[a]) < key(s[b])

PlaylistOf(e) == e.playlist

\* C1: run() processes the selected playlists strictly in the order of the
\* selection: the page requests go playlist by playlist and, within one, page
\* by page; the paths in exported_files, and those the completion signal
\* delivers, are in the order of the selection; and the tracks handed to the
\* serializer or the relay are in fetch order (a prefix of the source's order
\* when the walk was cut short).
C1_SelectionAndFetchOrder ==
    \A w \in Workers :
       LET me == worker[w]
       IN /\ \A n \in 1..(Len(me.requests) - 1) :
                \/ /\ me.requests[n + 1].playlist = me.requests[n].playlist
                   /\ me.requests[n + 1].page = me.requests[n].page + 1
                \/ /\ me.requests[n + 1].playlist > me.requests[n].playlist
                   /\ me.requests[n + 1].page = 1
          /\ Increasing(me.written, PlaylistOf)
          /\ Increasing(me.fetched, PlaylistOf)
          /\ me.exported_files = [n \in DOMAIN me.written |-> me.written[n].path]
          /\ \A n \in DOMAIN me.emitted :
                me.emitted[n].sig = "finished" => me.emitted[n].files = me.exported_files
          /\ \A n \in DOMAIN me.fetched :
                IsPrefix(me.fetched[n].tracks,
                         InFetchOrder(me.playlists[me.fetched[n].playlist]))
          /\ me.pc \in {"items", "export", "post"}
                => IsPrefix(me.tracks, InFetchOrder(me.playlists[me.i]))
          /\ \A f \in disk :
                \E n \in DOMAIN Catalogue :
                   /\ Catalogue[n].id = f.playlist
                   /\ IsPrefix(f.rows, InFetchOrder(Catalogue[n]))

\* C1 witness: a completed run that wrote two files and walked a playlist of
\* two pages and three tracks.
C1_Witness ==
    /\ worker[1].outcome = "completed"
    /\ Len(worker[1].exported_files) >= 2
    /\ \E n \in DOMAIN worker[1].fetched : Len(worker[1].fetched[n].tracks) = 3

\* the indices of the selected playlists whose fetched track list is not empty
NonEmptyPlaylists(me) ==
    {me.fetched[n].playlist : n \in {m \in DOMAIN me.fetched : me.fetched[m].tracks # <<>>}}

\* C2: a file-format run that was neither cancelled nor failed walks every
\* selected playlist, and its completion signal lists exactly one path for
\* each playlist whose fetched track list is non-empty and none for a playlist
\* whose list is empty.
C2_OnePathPerNonEmptyPlaylist ==
    \A w \in Workers :
       LET me == worker[w]
       IN (me.outcome = "completed" /\ ~me.is_cancelled /\ me.export_format # "discord")
          => /\ {me.fetched[n].playlist : n \in DOMAIN me.fetched} = DOMAIN me.playlists
             /\ {me.written[n].playlist : n \in DOMAIN me.written} = NonEmptyPlaylists(me)
             /\ Len(me.written) = Cardinality(NonEmptyPlaylists(me))
             /\ me.emitted[Len(me.emitted)].sig = "finished"
             /\ me.emitted[Len(me.emitted)].files
                   = [n \in DOMAIN me.written |-> me.written[n].path]
             /\ me.raised = <<>>

\* C2 witness: a completed csv run over a playlist with tracks and an empty
\* one that lists exactly one path.
C2_Witness ==
    /\ worker[1].outcome = "completed"
    /\ ~worker[1].is_cancelled
    /\ worker[1].export_format = "csv"
    /\ Len(worker[1].playlists) = 2
    /\ worker[1].playlists[1].id = "p1" /\ worker[1].playlists[2].id = "p2"
    /\ Len(worker[1].fetched[1].tracks) = 3
    /\ worker[1].fetched[2].tracks = <<>>
    /\ Len(worker[1].emitted[Len(worker[1].emitted)].files) = 1

Digits == {"0", "1", "2", "3", "4", "5", "6", "7", "8", "9"}

\* a string of the form YYYYMMDD_HHMMSS
IsTimestamp(ts) ==
    /\ Len(ts) = 15
    /\ ts[9] = "_"
    /\ \A n \in (1..15) \ {9} : ts[n] \in Digits

\* path is <output directory>/<stem>_<timestamp><ext>
IsNamed(path, stem, ext) ==
    LET prefix == OutputDir \o <<"/">> \o stem \o <<"_">>
    IN /\ Len(path) = Len(prefix) + 15 + Len(ext)
       /\ SubSeq(path, 1, Len(prefix)) = prefix
       /\ IsTimestamp(SubSeq(path, Len(prefix) + 1, Len(prefix) + 15))
       /\ SubSeq(path, Len(prefix) + 16, Len(path)) = ext

RoadTrip == <<"R", "o", "a", "d", " ", "T", "r", "i", "p">>
Road_Trip == <<"R", "o", "a", "d", "_", "T", "r", "i", "p">>
DotCsv == <<".", "c", "s", "v">>

\* C3 (as stated): the delimited export of the playlist "Road Trip" is the file
\* Road_Trip_<timestamp>.csv.
C3_RoadTripUnderscore ==
    \A w \in Workers : \A n \in DOMAIN worker[w].written :
       (/\ worker[w].export_format = "csv"
        /\ worker[w].playlists[worker[w].written[n].playlist].name = RoadTrip)
       => IsNamed(worker[w].written[n].path, Road_Trip, DotCsv)

\* C3 (amended): the delimited export of the playlist "Road Trip" is the file
\* "Road Trip_<timestamp>.csv": sanitize_filename keeps the inner space, and
\* the name is followed by '_', the YYYYMMDD_HHMMSS timestamp and ".csv".
C3_RoadTripKeepsSpace ==
    \A w \in Workers : \A n \in DOMAIN worker[w].written :
       (/\ worker[w].export_format = "csv"
        /\ worker[w].playlists[worker[w].written[n].playlist].name = RoadTrip)
       => /\ IsNamed(worker[w].written[n].path, RoadTrip, DotCsv)
          /\ \E f \in disk : f.path = worker[w].written[n].path

\* C3 witness: a csv file of the playlist "Road Trip" (id p1) was written.
C3_Witness ==
    \E n \in DOMAIN worker[1].written :
       /\ worker[1].export_format = "csv"
       /\ worker[1].playlists[worker[1].written[n].playlist].id = "p1"
       /\ worker[1].playlists[worker[1].written[n].playlist].name = RoadTrip

\* the signals of a kind that a worker emitted
Emitted(me, sig) == {n \in DOMAIN me.emitted : me.emitted[n].sig = sig}

FileFormats == ExportFormat \ {"discord"}

\* C4 (as stated): when cancel() is called after k files have been written,
\* at any moment of the run, the run ends with exactly those k files.
C4_CancelKeepsExactlyK ==
    \A w \in Workers :
       LET me == worker[w]
       IN (me.is_cancelled /\ me.pc = "done" /\ me.export_format \in FileFormats)
          => Len(me.written) = me.files_at_cancel

C7_PageFetchFailureNonFatal ==
    \A w \in Workers :
       LET me == worker[w]
       IN (\E n \in DOMAIN me.requests : ~me.requests[n].ok)
          => /\ \A n \in Emitted(me, "error") : me.emitted[n].text # FetchError
             /\ me.outcome # "failed"

\* the posts of a worker that the endpoint refused
Refused(me) == {n \in DOMAIN me.posts : ~StatusOk(me.posts[n].status)}

\* C8 (as stated): after a post that the endpoint refused, the run signals the
\* failure and still exports the playlists that follow in the selection.
C8_SiblingsStillExported ==
    \A w \in Workers :
       LET me == worker[w]
       IN \A n \in Refused(me) :
             me.pc = "done"
             => /\ Emitted(me, "error") # {}
                /\ \A i \in (me.posts[n].playlist + 1)..Len(me.playlists) :
                      \E r \in DOMAIN me.requests : me.requests[r].playlist = i

Code429 == <<"4", "2", "9">>

\* C8 (amended): a post that the endpoint refused is fatal to the whole run:
\* the failure signal carries the status code, no further message is posted,
\* and no playlist after that one is fetched, posted or signalled.
C8_RefusedPostEndsRun ==
    \A w \in Workers :
       LET me == worker[w]
       IN \A n \in Refused(me) :
             /\ n = Len(me.posts)
             /\ me.pc = "done" /\ me.outcome = "failed"
             /\ me.i = me.posts[n].playlist
             /\ me.emitted[Len(me.emitted)].sig = "error"
             /\ me.posts[n].status = 429 =>
                   me.emitted[Len(me.emitted)].text = FailedToSend \o Code429
             /\ \A r \in DOMAIN me.requests : me.requests[r].playlist <= me.posts[n].playlist
             /\ Emitted(me, "progress") = 1..me.posts[n].playlist

\* C8 witness: the first of two playlists was refused by the endpoint.
C8_Witness ==
    /\ Refused(worker[1]) # {}
    /\ worker[1].i = 1
    /\ Len(worker[1].playlists) >= 2

\* an operation of the run that failed: a page request, a refused post, or
\* anything that raised into run()
HasFailed(me) ==
    \/ me.raised # <<>>
    \/ \E n \in DOMAIN me.requests : ~me.requests[n].ok
    \/ Refused(me) # {}

\* C9: a failed page request, refused post, failed write or other exception in
\* the loop ends the run as Failed: exactly one failure signal, with the
\* message of the exception, is emitted and it is the last signal; no
\* completion signal is emitted; nothing is fetched, written or posted for a
\* later playlist; and the failed operation is not repeated.
C9_FailureEndsRun ==
    \A w \in Workers :
       LET me == worker[w]
       IN HasFailed(me)
          => /\ me.pc = "done" /\ me.outcome = "failed"
             /\ Len(me.raised) = 1
             /\ Emitted(me, "error") = {Len(me.emitted)}
             /\ me.emitted[Len(me.emitted)].text = me.raised[1].message
             /\ Emitted(me, "finished") = {}
             /\ me.i = me.raised[1].playlist
             /\ \A n \in DOMAIN me.requests :
                   /\ me.requests[n].playlist <= me.i
                   /\ ~me.requests[n].ok => n = Len(me.requests)
             /\ \A n \in DOMAIN me.posts :
                   /\ me.posts[n].playlist <= me.i
                   /\ n \in Refused(me) => n = Len(me.posts)
             /\ \A n \in DOMAIN me.written :
                   /\ me.written[n].playlist <= me.i
                   /\ me.raised[1].message = WriteError => me.written[n].playlist < me.i

\* C9 witness: the write of the first of several playlists failed.
C9_Witness ==
    /\ worker[1].raised # <<>>
    /\ worker[1].raised[1].message = WriteError
    /\ worker[1].raised[1].playlist = 1
    /\ Len(worker[1].playlists) >= 2

Populated(o) == o.k \notin {"null", "absent"}

\* C10 (as stated): every Track the walker appends has its five fields
\* populated with a value that is not null.
C10_AllFieldsPopulated ==
    \A w \in Workers : \A n \in DOMAIN worker[w].tracks :
       LET t == worker[w].tracks[n]
       IN /\ Populated(t.name) /\ Populated(t.artist) /\ Populated(t.album)
          /\ Populated(t.duration_ms) /\ Populated(t.url)

\* ===================================================================
\* Properties of the interface and its workers (SpecGUI)
\* ===================================================================
Running == {w \in Workers : isRunning(w)}

\* C6 (as stated): at most one ExportWorker thread runs at any time.
C6_AtMostOneRunning == Cardinality(Running) <= 1

\* ===================================================================
\* Properties of the functions of the worker (SpecFunctions)
\* ===================================================================
\* every key of the record is either missing or holds a value of its type
OnlyOmits(track) ==
    /\ track.name.k \in {"absent", "val"}
    /\ track.artists.k \in {"absent", "val"}
    /\ \A n \in DOMAIN track.artists.v : track.artists.v[n].k \in {"absent", "val"}
    /\ track.album.k \in {"absent", "empty", "val"}
    /\ track.album.v.name.k \in {"absent", "val"}
    /\ track.duration_ms.k \in {"absent", "val"}
    /\ track.external_urls.k \in {"absent", "empty", "val"}
    /\ track.external_urls.v.spotify.k \in {"absent", "val"}
    /\ track.id.k \in {"absent", "val"}

\* the name of an artist entry, or the placeholder
NameOrUnknown(artist) == IF artist.k = "absent" THEN UnknownArtist ELSE artist.v

\* C11: a raw track record that omits any subset of its keys (the other keys
\* well-formed) is normalized without an exception into one Track: a missing
\* name becomes "Unknown Track"; a missing or empty artist list becomes
\* "Unknown Artist" and an entry without a name counts as "Unknown Artist" in
\* the ", " join; a missing or empty album, or one without a name, becomes
\* "Unknown Album"; a missing duration becomes 0; the fields that are present
\* are taken as they are.
C11_OmittedKeysTakeDefaults ==
    (call.op = "normalize" /\ call.returned /\ OnlyOmits(call.arg))
    => LET raw == call.arg
           t == call.result.track
       IN /\ call.result.ok
          /\ t.name = IF raw.name.k = "absent" THEN Val(UnknownTrack) ELSE raw.name
          /\ t.artist =
                IF raw.artists.k = "absent" \/ raw.artists.v = <<>>
                THEN Val(UnknownArtist)
                ELSE Val(Join([n \in DOMAIN raw.artists.v |-> NameOrUnknown(raw.artists.v[n])],
                              CommaSpace))
          /\ t.album =
                IF raw.album.k = "val" /\ raw.album.v.name.k = "val"
                THEN raw.album.v.name ELSE Val(UnknownAlbum)
          /\ t.duration_ms =
                IF raw.duration_ms.k = "absent" THEN IntVal(0) ELSE raw.duration_ms

\* C11 witness: a record with nothing but an artist list whose second entry
\* has no name was normalized to the placeholders and "X, Unknown Artist".
C11_Witness ==
    /\ call.op = "normalize" /\ call.returned
    /\ call.arg = RawTrack(Absent, Val(<<Val(<<"X">>), Absent>>), NoAlbum, AbsentInt,
                           NoUrls, Absent)
    /\ call.result.ok
    /\ call.result.track =
          Track(Val(UnknownTrack), Val(<<"X", ",", " ">> \o UnknownArtist),
                Val(UnknownAlbum), IntVal(0), Val(RootUrl))

\* the numbered lines of a track list, as export_to_discord formats them
Lines(tracks) == [i \in DOMAIN tracks |-> TrackLine(i, tracks[i])]

\* C13 (as stated): every message the relay builds for a playlist is at most
\* 1800 characters long.
C13_EveryMessageWithinBudget ==
    (call.op = "discord" /\ call.returned)
    => \A n \in DOMAIN call.result : Len(call.result[n]) <= 1800

\* C14: the first message is the header; the messages after it, concatenated
\* in posting order, are exactly the numbered lines 1..N of the tracks in
\* their order, each once; and a listing longer than 1800 characters is split
\* over more than one message.
C14_MessagesRebuildListing ==
    (call.op = "discord" /\ call.returned)
    => LET messages == call.result
           lines == Lines(call.arg.tracks)
       IN /\ messages[1] = Header(call.arg.playlist, call.arg.tracks)
          /\ Flatten(Tail(messages)) = Flatten(lines)
          /\ \A i \in DOMAIN lines :
                SubSeq(lines[i], 1, Len(IntToStr(i)) + 2) = IntToStr(i) \o <<".", " ">>
          /\ Len(Flatten(lines)) > 1800 => Len(messages) - 1 > 1

\* C14 witness: three lines of 900 characters were split into a message of
\* two lines and a message of one.
C14_Witness ==
    /\ call.op = "discord" /\ call.returned
    /\ Len(call.arg.tracks) = 3
    /\ \A i \in 1..3 : Len(call.arg.tracks[i].name.v) = 888
    /\ Len(call.result) = 3
    /\ Len(call.result[2]) = 1800
    /\ Len(call.result[3]) = 900

\* C16: for every name, sanitize_filename returns a string without any of
\* < > : " / \ | ? * and without a control character, of at most 200
\* characters and never empty; a name made only of forbidden characters,
\* control characters, periods and spaces gives exactly "playlist".
C16_SanitizedNameIsSafe ==
    (call.op = "sanitize" /\ call.returned)
    => LET out == call.result
           removed == {"<", ">", ":", "\"", "/", "\\", "|", "?", "*"} \cup ControlChars
       IN /\ \A n \in DOMAIN out : out[n] \notin removed
          /\ Len(out) <= 200
          /\ out # <<>>
          /\ (\A n \in DOMAIN call.arg : call.arg[n] \in removed \cup {".", " "})
                => out = <<"p", "l", "a", "y", "l", "i", "s", "t">>

\* C16 witness: a name of a forbidden character, 201 letters, a line feed and
\* a period was cut to its first 200 letters.
C16_Witness ==
    /\ call.op = "sanitize" /\ call.returned
    /\ call.arg = <<"<">> \o [n \in 1..201 |-> "a"] \o <<"x0a", ".">>
    /\ call.result = [n \in 1..200 |-> "a"]

\* --- a JSON parser (json.load), to read back what export_to_json wrote
Whitespace == {" ", "x0a", "x0d", "x09"}

RECURSIVE SkipWs(_, _)
SkipWs(text, pos) ==
    IF pos <= Len(text) /\ text[pos] \in Whitespace THEN SkipWs(text, pos + 1) ELSE pos

\* the character an escape stands for
Unescape(escape) ==
    CHOOSE c \in DOMAIN ShortEscapes \cup DOMAIN HexEscapes :
       escape = (IF c \in DOMAIN ShortEscapes THEN ShortEscapes[c] ELSE HexEscapes[c])

RECURSIVE ParseChars(_, _, _)
\* the characters of a string from pos (after the opening quote) to the
\* closing quote
ParseChars(text, pos, acc) ==
    IF text[pos] = "\"" THEN [v |-> acc, next |-> pos + 1]
    ELSE IF text[pos] = "\\"
         THEN IF text[pos + 1] = "u"
              THEN ParseChars(text, pos + 6, Append(acc, Unescape(SubSeq(text, pos, pos + 5))))
              ELSE ParseChars(text, pos + 2, Append(acc, Unescape(SubSeq(text, pos, pos + 1))))
         ELSE ParseChars(text, pos + 1, Append(acc, text[pos]))

DigitValue(c) == CHOOSE d \in 0..9 : Digit(d) = c

RECURSIVE ParseDigits(_, _, _)
ParseDigits(text, pos, acc) ==
    IF pos <= Len(text) /\ text[pos] \in Digits
    THEN ParseDigits(text, pos + 1, 10 * acc + DigitValue(text[pos]))
    ELSE [v |-> acc, next |-> pos]

RECURSIVE ParseValue(_, _)
RECURSIVE ParseArray(_, _, _)
RECURSIVE ParseObject(_, _, _)

\* the value that starts at pos, and the position after it
ParseValue(text, pos) ==
    CASE text[pos] = "\"" ->
            LET r == ParseChars(text, pos + 1, <<>>) IN [v |-> JStr(r.v), next |-> r.next]
      [] text[pos] \in Digits ->
            LET r == ParseDigits(text, pos, 0) IN [v |-> JNum(r.v), next |-> r.next]
      [] text[pos] = "n" /\ SubSeq(text, pos, pos + 3) = <<"n", "u", "l", "l">> ->
            [v |-> JNull, next |-> pos + 4]
      [] text[pos] = "[" -> ParseArray(text, SkipWs(text, pos + 1), <<>>)
      [] text[pos] = "{" -> ParseObject(text, SkipWs(text, pos + 1), <<>>)

\* the elements of an array from pos to its closing bracket
ParseArray(text, pos, acc) ==
    IF text[pos] = "]" THEN [v |-> JArr(acc), next |-> pos + 1]
    ELSE LET r == ParseValue(text, pos)
             after == SkipWs(text, r.next)
         IN IF text[after] = ","
            THEN ParseArray(text, SkipWs(text, after + 1), Append(acc, r.v))
            ELSE ParseArray(text, after, Append(acc, r.v))

\* the members of an object from pos to its closing brace
ParseObject(text, pos, acc) ==
    IF text[pos] = "}" THEN [v |-> JObj(acc), next |-> pos + 1]
    ELSE LET k == ParseChars(text, pos + 1, <<>>)
             colon == SkipWs(text, k.next)
             r == ParseValue(text, SkipWs(text, colon + 1))
             after == SkipWs(text, r.next)
         IN IF text[after] = ","
            THEN ParseObject(text, SkipWs(text, after + 1), Append(acc, Pair(k.v, r.v)))
            ELSE ParseObject(text, after, Append(acc, Pair(k.v, r.v)))

\* json.loads(text)
Loads(text) == ParseValue(text, SkipWs(text, 1)).v

\* object[key]
Member(object, key) ==
    object.v[CHOOSE n \in DOMAIN object.v : object.v[n].key = key].value

\* C17: the text export_to_json writes for N tracks parses back to a document
\* whose "tracks" array has N entries, the n-th holding the name, artist,
\* album, duration_ms and url of the n-th track.
C17_JsonRoundTrip ==
    (call.op = "json" /\ call.returned)
    => LET tracks == call.arg.tracks
           parsed == Member(Loads(call.result), <<"t", "r", "a", "c", "k", "s">>)
       IN /\ parsed.t = "arr"
          /\ Len(parsed.v) = Len(tracks)
          /\ \A n \in DOMAIN tracks :
                /\ Member(parsed.v[n], <<"n", "a", "m", "e">>) = PyStr(tracks[n].name)
                /\ Member(parsed.v[n], <<"a", "r", "t", "i", "s", "t">>)
                      = PyStr(tracks[n].artist)
                /\ Member(parsed.v[n], <<"a", "l", "b", "u", "m">>) = PyStr(tracks[n].album)
                /\ Member(parsed.v[n], <<"d", "u", "r", "a", "t", "i", "o", "n", "_", "m", "s">>)
                      = PyInt(tracks[n].duration_ms)
                /\ Member(parsed.v[n], <<"u", "r", "l">>) = PyStr(tracks[n].url)

\* C17 witness: three tracks were written, the first with a quote, a
\* backslash and a line feed in its name (escaped in the text), the last with
\* None fields.
C17_Witness ==
    /\ call.op = "json" /\ call.returned
    /\ Len(call.arg.tracks) = 3
    /\ call.arg.tracks[1].name = Val(<<"\"", "\\", "x0a">>)
    /\ call.arg.tracks[2].name = Val(<<"A">>)
    /\ call.arg.tracks[3].name = Null
    /\ \E n \in 1..(Len(call.result) - 5) :
          SubSeq(call.result, n, n + 5) = <<"\\", "\"", "\\", "\\", "\\", "n">>

\* C23: the url of a normalized Track is the record's external streaming url
\* when the record has one; else the canonical track url built from the
\* record's id when the id is present and not empty; else the root url of the
\* service.  Whether a record is skipped does not depend on its id.
C23_UrlByPreference ==
    (call.op = "normalize" /\ call.returned)
    => LET raw == call.arg
           streaming == raw.external_urls.v.spotify
           canonical(id) ==
              <<"h", "t", "t", "p", "s", ":", "/", "/", "o", "p", "e", "n", ".", "s",
                "p", "o", "t", "i", "f", "y", ".", "c", "o", "m", "/", "t", "r", "a",
                "c", "k", "/">> \o id
       IN /\ call.result.ok
             => call.result.track.url =
                   IF raw.external_urls.k = "val" /\ streaming.k = "val" THEN streaming
                   ELSE IF raw.id.k = "val" /\ raw.id.v # <<>> THEN Val(canonical(raw.id.v))
                   ELSE Val(<<"h", "t", "t", "p", "s", ":", "/", "/", "o", "p", "e", "n",
                              ".", "s", "p", "o", "t", "i", "f", "y", ".", "c", "o", "m">>)
          /\ \A id \in RawIds : NormalizeTrack([raw EXCEPT !.id = id]).ok = call.result.ok

\* C23 witness: a record with an id and an external_urls dict that lacks the
\* streaming url got the canonical url of its id.
C23_Witness ==
    /\ call.op = "normalize" /\ call.returned
    /\ call.arg.external_urls = Dict("val", [spotify |-> Absent])
    /\ call.arg.id = Val(<<"a">>)
    /\ call.result.ok
    /\ call.result.track.url.v[Len(call.result.track.url.v)] = "a"
    /\ Len(call.result.track.url.v) = 32

\* C27 (as stated): no message the relay builds for posting is empty.
C27_NoEmptyMessage ==
    (call.op = "discord" /\ call.returned)
    => \A n \in DOMAIN call.result : call.result[n] # <<>>

\* C30 (as stated): sanitize_filename is idempotent: sanitizing its result
\* again gives the same string.
C30_SanitizeIdempotent ==
    (call.op = "sanitize" /\ call.returned)
    => sanitize_filename(call.result) = call.result

\* C30 (amended): the result never begins with a period or a space; for a
\* name of at most 200 characters it does not end with one either and
\* sanitizing it again changes nothing; a result that ends with a period or a
\* space is a name cut at 200 characters, which is not stripped again.
C30_IdempotentUnlessTruncated ==
    (call.op = "sanitize" /\ call.returned)
    => LET out == call.result
       IN /\ out[1] \notin {".", " "}
          /\ Len(call.arg) <= 200
                => /\ out[Len(out)] \notin {".", " "}
                   /\ sanitize_filename(out) = out
          /\ out[Len(out)] \in {".", " "} => Len(out) = 200 /\ Len(call.arg) > 200

\* C30 witness: a name of 199 letters, a space and a letter was cut after the
\* space, and sanitizing the result again strips that space.
C30_Witness ==
    /\ call.op = "sanitize" /\ call.returned
    /\ call.arg = [n \in 1..199 |-> "a"] \o <<" ", "b">>
    /\ call.result = [n \in 1..199 |-> "a"] \o <<" ">>
    /\ sanitize_filename(call.result) = [n \in 1..199 |-> "a"]

\* ===================================================================
\* More properties of one export run (Spec)
\* ===================================================================
\* an item the walker cannot turn into a Track: no track data, or artists,
\* an artist name, the album or external_urls of a type that makes the try
\* block raise
Defective(item) ==
    \/ item.track.k # "val"
    \/ item.track.v.artists.k = "bad"
    \/ /\ item.track.v.artists.k = "val"
       /\ \E n \in DOMAIN item.track.v.artists.v :
             item.track.v.artists.v[n].k \notin {"absent", "val"}
    \/ item.track.v.album.k = "bad"
    \/ item.track.v.external_urls.k = "bad"

\* the page requests a worker made for the playlist at index p of its selection
RequestsFor(me, p) == {r \in DOMAIN me.requests : me.requests[r].playlist = p}

\* C12: when no page request fails and the run is not cancelled, the walker
\* makes exactly one request per page of the chain (pages 1..k, in order) and
\* returns as many Tracks as there are non-defective records on all the pages.
C12_OneRequestPerPage ==
    \A w \in Workers :
       LET me == worker[w]
       IN ~me.is_cancelled
          => \A n \in DOMAIN me.fetched :
                LET p == me.fetched[n].playlist
                    pages == Remote(me.playlists[p].id)
                    items == Flatten(pages)
                IN /\ Cardinality(RequestsFor(me, p)) = Len(pages)
                   /\ {me.requests[r].page : r \in RequestsFor(me, p)} = 1..Len(pages)
                   /\ \A r \in RequestsFor(me, p) : me.requests[r].ok
                   /\ Len(me.fetched[n].tracks)
                         = Cardinality({m \in DOMAIN items : ~Defective(items[m])})

\* C12 witness: an uncancelled run walked the chain of two pages (2 requests,
\* 3 tracks) and the chain of three pages, one of them empty, with two
\* defective records (3 requests, 1 track).
C12_Witness ==
    /\ ~worker[1].is_cancelled
    /\ Len(worker[1].fetched) = 2
    /\ worker[1].playlists[1].id = "p1" /\ worker[1].playlists[2].id = "p3"
    /\ Cardinality(RequestsFor(worker[1], 1)) = 2
    /\ Len(worker[1].fetched[1].tracks) = 3
    /\ Cardinality(RequestsFor(worker[1], 2)) = 3
    /\ Len(worker[1].fetched[2].tracks) = 1

\* C15 (as stated): within one run no two selected playlists are written to
\* the same path: the paths a run wrote are pairwise distinct, and the file of
\* each is still that playlist's on disk.
C15_NoCollisionInRun ==
    \A w \in Workers :
       LET me == worker[w]
       IN \A a, b \in DOMAIN me.written :
             a # b
             => /\ me.written[a].path # me.written[b].path
                /\ \E f \in disk : /\ f.path = me.written[a].path
                                   /\ f.playlist = me.playlists[me.written[a].playlist].id

\* C19 (as stated): a worker that runs the relay format with an empty webhook
\* url makes no network call: no page is requested and nothing is posted
\* before (or after) the configuration error.
C19_NoNetworkCallWithoutWebhook ==
    \A w \in Workers :
       LET me == worker[w]
       IN (me.pc # "none" /\ me.export_format = "discord" /\ me.webhook_url = <<>>)
          => me.requests = <<>> /\ me.posts = <<>>

\* C20: every progress percentage a run emits is in 0..100 and the
\* percentages never decrease; 100 is emitted only once the loop is past the
\* last playlist, and the signal right after it is the completion signal
\* with all the paths the run wrote, after which nothing is emitted.
C20_ProgressMonotoneThenCompletion ==
    \A w \in Workers :
       LET me == worker[w]
           em == me.emitted
       IN /\ \A n \in Emitted(me, "progress") : em[n].value \in 0..100
          /\ \A a, b \in Emitted(me, "progress") : a < b => em[a].value <= em[b].value
          /\ \A n \in Emitted(me, "progress") :
                em[n].value = 100
                => /\ me.i = Len(me.playlists) + 1
                   /\ {me.fetched[m].playlist : m \in DOMAIN me.fetched}
                         = DOMAIN me.playlists
                   /\ Len(em) = n + 1
                   /\ em[n + 1].sig = "finished"
                   /\ em[n + 1].files = [m \in DOMAIN me.written |-> me.written[m].path]

\* C20 witness: a completed run over three playlists emitted 0, 33, 66 and
\* 100 and then the completion signal with two paths.
C20_Witness ==
    /\ Len(worker[1].playlists) = 3
    /\ Len(worker[1].emitted) = 5
    /\ [n \in 1..4 |-> worker[1].emitted[n].value] = <<0, 33, 66, 100>>
    /\ worker[1].emitted[5].sig = "finished"
    /\ Len(worker[1].emitted[5].files) = 2

\* the walker of w has processed the last item of the page it holds
AtPageEnd(w) ==
    /\ worker[w].pc = "items"
    /\ worker[w].item > Len(CurrentItems(w))

\* C21 (as stated): a walker that finishes a page (also one without items)
\* while the cancellation flag is set requests no further page: its next step
\* is not the request of the next page.
C21_FlagPolledBetweenPages ==
    [][\A w \in Workers :
          (AtPageEnd(w) /\ worker[w].is_cancelled /\ worker'[w] # worker[w])
          => worker'[w].pc # "fetch"]_vars

\* the contents a worker posted for the playlist at index p, in posting order
PostedFor(me, p) ==
    LET of_p == SelectSeq(me.posts, LAMBDA e : e.playlist = p)
    IN [n \in DOMAIN of_p |-> of_p[n].content]

\* the tracks get_playlist_tracks returned for the playlist at index p
FetchedFor(me, p) ==
    me.fetched[CHOOSE n \in DOMAIN me.fetched : me.fetched[n].playlist = p].tracks

\* C22: the relay posts the messages of a playlist in build order, header
\* first, each message once: what was posted is always a prefix of the
\* messages built, and all of them once an uncancelled run completed; no post
\* is made while the cancellation flag is set, and the cancellation raises
\* nothing; a refused post is the last post of the run.
C22_PostsInOrderUntilStopped ==
    \A w \in Workers :
       LET me == worker[w]
       IN /\ \A n \in DOMAIN me.posts : ~me.posts[n].flag
          /\ \A a, b \in DOMAIN me.posts :
                a < b => me.posts[a].playlist <= me.posts[b].playlist
          /\ \A n \in DOMAIN me.posts :
                LET p == me.posts[n].playlist
                    built == DiscordMessages(me.playlists[p], FetchedFor(me, p))
                IN /\ IsPrefix(PostedFor(me, p), built)
                   /\ (me.outcome = "completed" /\ ~me.is_cancelled)
                         => PostedFor(me, p) = built
          /\ \A n \in Refused(me) : n = Len(me.posts)
          /\ (/\ me.export_format = "discord" /\ me.webhook_url # <<>>
              /\ Refused(me) = {}
              /\ \A r \in DOMAIN me.requests : me.requests[r].ok)
                => me.raised = <<>> /\ me.outcome # "failed"

\* C22 witness: a relay run was cancelled after the header of its first
\* playlist was posted: the track message was not posted and the run ended
\* Cancelled.
C22_Witness ==
    /\ worker[1].export_format = "discord"
    /\ worker[1].outcome = "cancelled"
    /\ Len(worker[1].posts) = 1
    /\ worker[1].i = 2
    /\ Len(DiscordMessages(worker[1].playlists[1], FetchedFor(worker[1], 1))) = 2

\* the items the walker of a worker has been through: the pages before the
\* one it holds, and the items of that page before the current one
Processed(w) ==
    LET me == worker[w]
        pages == Remote(CurrentPlaylist(w).id)
    IN Flatten(SubSeq(pages, 1, me.page - 1)) \o SubSeq(pages[me.page], 1, me.item - 1)

NonDefective(item) == ~Defective(item)

\* the messages of the exceptions that are no data defect: a failed page
\* request, a failed write, the missing webhook url, a refused post
RunErrors ==
    {FetchError, WriteError, WebhookRequired}
    \cup {FailedToSend \o IntToStr(status) : status \in Statuses}

\* C24: a defective page item (no record, a null record, a record whose
\* normalization raises) is skipped, that item only, and the walk goes on
\* with the next item: at every point of a walk the tracks collected are the
\* Tracks of exactly the non-defective items gone through, in order; and no
\* failure of a run comes from a record.
C24_DefectsAreSkipped ==
    \A w \in Workers :
       LET me == worker[w]
       IN /\ me.pc = "items"
             => LET sound == SelectSeq(Processed(w), NonDefective)
                IN me.tracks = [n \in DOMAIN sound |-> NormalizeTrack(sound[n].track.v).track]
          /\ \A n \in DOMAIN me.raised : me.raised[n].message \in RunErrors
          /\ \A n \in Emitted(me, "error") : me.emitted[n].text \in RunErrors

\* C24 witness: an uncancelled run walked the playlist whose pages hold an
\* item without a record and a record with a malformed album, kept the one
\* sound record, wrote its file and completed.
C24_Witness ==
    /\ worker[1].outcome = "completed"
    /\ ~worker[1].is_cancelled
    /\ Len(worker[1].playlists) = 1
    /\ worker[1].playlists[1].id = "p3"
    /\ Len(worker[1].fetched[1].tracks) = 1
    /\ Len(worker[1].requests) = 3
    /\ Len(worker[1].written) = 1

\* C25 (under SpecLive): every started run terminates: it eventually leaves
\* Running for one of Completed, Cancelled and Failed, and stays there.
C25_EveryRunTerminates ==
    \A w \in Workers :
       /\ (worker[w].pc # "none")
             ~> (worker[w].pc = "done"
                 /\ worker[w].outcome \in {"completed", "cancelled", "failed"})
       /\ [](worker[w].pc = "done"
                => [](worker[w].pc = "done"
                      /\ worker[w].outcome \in {"completed", "cancelled", "failed"}))

\* C25 witness: a run over three playlists, one of them of three pages, has
\* ended.
C25_Witness ==
    /\ worker[1].pc = "done"
    /\ Len(worker[1].playlists) = 3
    /\ Len(worker[1].fetched) = 3
    /\ \E p \in 1..3 : Cardinality(RequestsFor(worker[1], p)) = 3

\* " <n> tracks*", the count as the header of the relay states it
CountText(n) == <<" ">> \o IntToStr(n) \o <<" ", "t", "r", "a", "c", "k", "s", "*">>

Contains(text, part) ==
    \E n \in 0..(Len(text) - Len(part)) : SubSeq(text, n + 1, n + Len(part)) = part

\* C26: the track count a json, txt or markdown file states is the number of
\* tracks written in it, which are the tracks fetched for its playlist, and the
\* header the relay posts states the number of tracks fetched for the
\* playlist: not the track_count of the playlist listing when the two differ.
C26_CountIsFetchedCount ==
    /\ \A f \in disk :
          /\ f.fmt # "csv" => f.track_count = Len(f.rows)
          /\ \E w \in Workers : \E m \in DOMAIN worker[w].fetched :
                /\ worker[w].playlists[worker[w].fetched[m].playlist].id = f.playlist
                /\ Len(worker[w].fetched[m].tracks) = Len(f.rows)
    /\ \A w \in Workers : \A n \in DOMAIN worker[w].posts :
          LET post == worker[w].posts[n]
          IN (n = 1 \/ worker[w].posts[n - 1].playlist # post.playlist)
             => Contains(post.content, CountText(Len(FetchedFor(worker[w], post.playlist))))

\* C26 witness: the json file of a playlist listed with 3 tracks, of which one
\* could be fetched and normalized, states 1.
C26_Witness ==
    \E f \in disk :
       /\ f.fmt = "json"
       /\ f.playlist = "p3"
       /\ Catalogue[3].track_count = 3
       /\ f.track_count = 1
       /\ Len(f.rows) = 1

\* the terminal signals a worker emitted
Terminal(me) == Emitted(me, "finished") \cup Emitted(me, "error")

\* C29: a run emits at most one terminal signal: the completion signal or the
\* failure signal, never both and neither twice; it is the last signal of the
\* run (no progress follows it) and is emitted by the step that ends the run;
\* a run that ended neither cancelled nor failed emitted the completion
\* signal exactly once.
C29_AtMostOneTerminalSignal ==
    \A w \in Workers :
       LET me == worker[w]
       IN /\ Cardinality(Terminal(me)) <= 1
          /\ \A n \in Terminal(me) : n = Len(me.emitted)
          /\ Terminal(me) # {} => me.pc = "done"
          /\ (me.pc = "done" /\ me.outcome \notin {"cancelled", "failed"})
                => Cardinality(Emitted(me, "finished")) = 1 /\ Emitted(me, "error") = {}
          /\ me.outcome = "failed"
                => Cardinality(Emitted(me, "error")) = 1 /\ Emitted(me, "finished") = {}

\* C29 witness: a run failed at its second playlist after two progress
\* signals; the failure signal is its third and last signal.
C29_Witness ==
    /\ worker[1].outcome = "failed"
    /\ worker[1].i = 2
    /\ Len(worker[1].emitted) = 3
    /\ worker[1].emitted[3].sig = "error"
    /\ Len(worker[1].written) = 1

\* ===================================================================
\* More properties of the interface and its workers (SpecGUI)
\* ===================================================================
\* C18 (as stated): a worker is created and started only for a non-empty
\* selection and an output location that is an existing directory or, for the
\* relay format, a non-empty webhook url.
C18_StartedOnlyWhenValid ==
    \A w \in Workers :
       worker[w].pc # "none"
       => /\ worker[w].playlists # <<>>
          /\ \/ IsDir(worker[w].output_dir)
             \/ worker[w].export_format = "discord" /\ worker[w].webhook_url # <<>>

\* C28 (as stated): while the run the interface started last is Running and
\* was not cancelled, its progress display stays visible and the export
\* buttons stay disabled: no signal of an earlier, cancelled worker hides the
\* display, re-enables the buttons or reports an end.
C28_StaleSignalsIgnored ==
    (/\ gui.worker # 0
     /\ isRunning(gui.worker)
     /\ ~worker[gui.worker].is_cancelled)
    => gui.progress_visible /\ ~gui.buttons_enabled

====
